---- MODULE Spec2Model ----
(***************************************************************************)
(* Model of ui/ui.go of OctoScreen: the connection-state reconciliation    *)
(* loop (UI.verifyConnection), the panel navigator (UI.Add, UI.Remove,     *)
(* UI.GoHistory) and the user-facing error formatter (UI.errToUser).       *)
(*                                                                         *)
(* Strings are modelled as sequences of tokens (words or fixed phrases),   *)
(* so that fmt.Sprintf is concatenation and strings.Contains is a search   *)
(* for a contiguous sub-sequence.                                          *)
(*                                                                         *)
(* verifyConnection blocks twice, in ConnectionRequest.Do and, for an      *)
(* error or offline state, in ConnectRequest.Do, and holds no lock while   *)
(* it does.  A run is therefore up to three steps, split at these waits,   *)
(* and other callbacks (further runs, navigation) may come in between.     *)
(* Add, Remove and GoHistory make no request and are one step each.        *)
(***************************************************************************)
EXTENDS Integers, Sequences, FiniteSets, TLC

VARIABLES
    Current,    \* ui.Current: the panel shown, NoPanel when nil
    UIState,    \* ui.UIState: the recorded mode, "" before the first tick
    State,      \* ui.State: the latest connection-state sample
    label,      \* ui.s.Label: the text of the splash panel
    endpoint,   \* ui.Printer.Endpoint
    key,        \* ui.Printer.APIKey
    elapsed,    \* time.Since(ui.t) as the next callback reads it, in seconds
    panels,     \* the panels constructed so far: panels[i] = [kind, parent]
    attached,   \* the panels whose Grid() is a child of ui.g
    shown,      \* the panels shown last (Show, ShowAll of the slot), not hidden
    alive,      \* FALSE once a handler has panicked
    ops,        \* the toolkit calls made by the last handler, in order
    last,       \* what the last handler was and what it read
    pending,    \* runs of verifyConnection waiting for the printer's answer
    env         \* what the printer answers from now on: "any", "op" or "pr"

vars == <<Current, UIState, State, label, endpoint, key, elapsed, panels,
          attached, shown, alive, ops, last, pending, env>>

----------------------------------------------------------------------------
(* Bounds of the model *)

MaxPanels == 3
MaxPending == 2

(* Program constants *)

errMercyPeriod == 30

NoPanel == 0
SplashId == 1

----------------------------------------------------------------------------
(* Strings *)

\* strings.Contains(text, needle): needle occurs in text as a contiguous run
Contains(text, needle) ==
    \E i \in 0..(Len(text) - Len(needle)) :
        \A j \in 1..Len(needle) : text[i + j] = needle[j]

\* fmt's %q of a plain string: the string in double quotes
Quote(s) == <<"\"">> \o s \o <<"\"">>

\* fmt's %v of a bool
BoolText(b) == IF b THEN <<"true">> ELSE <<"false">>

Refused == <<"connection", "refused">>

\* error values: nil, or an error with a text
NilErr == [isNil |-> TRUE, text |-> <<>>]
Err(t) == [isNil |-> FALSE, text |-> t]

ErrTexts == { <<"dial", "tcp:", "connection", "refused">>,
              <<"timeout">>,
              <<"connection", "reset">> }

Endpoints == { <<"http://host:80">> }
Keys == { <<>>, <<"k1">>, <<"k2">> }

\* the moments, in seconds after New, at which callbacks are observed
Times == { 0, 29, 30, 31 }

----------------------------------------------------------------------------
(* Connection states: the answers of the five predicates the reconciler    *)
(* asks, and the label string(state) renders to                            *)

AllConnStates == [op : BOOLEAN, pr : BOOLEAN, er : BOOLEAN,
                  off : BOOLEAN, conn : BOOLEAN]

NoState == [op |-> FALSE, pr |-> FALSE, er |-> FALSE,
            off |-> FALSE, conn |-> FALSE]

\* the states the printer's API reports: at most one predicate is true of
\* each (none of an unknown state)
ConnStates == { s \in AllConnStates :
                  Cardinality({ f \in {"op", "pr", "er", "off", "conn"} : s[f] }) <= 1 }

IsOperational(s) == s.op
IsPrinting(s) == s.pr
IsError(s) == s.er
IsOffline(s) == s.off
IsConnecting(s) == s.conn

StateText(s) ==
    (IF s.op THEN <<"Operational">> ELSE <<>>) \o
    (IF s.pr THEN <<"Printing">> ELSE <<>>) \o
    (IF s.er THEN <<"Error">> ELSE <<>>) \o
    (IF s.off THEN <<"Offline">> ELSE <<>>) \o
    (IF s.conn THEN <<"Connecting">> ELSE <<>>)

----------------------------------------------------------------------------
(* UI.errToUser and the two other messages verifyConnection formats *)

errToUserLeaky(text, ep, k) ==
    IF Contains(text, Refused)
    THEN <<"Unable to connect to">> \o Quote(ep) \o <<"(Key:">> \o k
             \o <<"),", "maybe OctoPrint not running?">>
    ELSE <<"Unexpected error:">> \o text

\* ui.errToUser(err), with ui.Printer.Endpoint = ep and ui.Printer.APIKey = k
errToUser(text, ep, k) ==
    IF Contains(text, Refused)
    THEN <<"Unable to connect to">> \o Quote(ep) \o <<"(Key:">>
             \o BoolText(k # <<>>)
             \o <<"),", "maybe OctoPrint not running?">>
    ELSE <<"Unexpected error:">> \o text

ConnectErrTextRaw(text) == text

\* fmt.Sprintf("Error connecting to printer: %s", err)
ConnectErrText(text) == <<"Error connecting to printer:">> \o text

PastMercyAtBoundary(d) == d >= errMercyPeriod

PastMercyAlways(d) == TRUE

\* time.Since(ui.t) > errMercyPeriod
PastMercy(d) == d > errMercyPeriod

----------------------------------------------------------------------------
(* The navigator.  d is the display: [Current, attached, shown, ops,       *)
(* panic]; ops logs each toolkit call with the number of panels attached   *)
(* to the slot right after it.                                             *)

Op(kind, p, att) == [op |-> kind, p |-> p, n |-> Cardinality(att)]

RemoveKeepsNode(d, p) ==
    IF p = NoPanel
    THEN [d EXCEPT !.panic = TRUE]
    ELSE [d EXCEPT !.shown = @ \ {p},
                   !.ops = @ \o << Op("hide", p, d.attached) >>]

\* ui.Remove(p): g.Remove(p.Grid()), then the deferred p.Hide().  With p
\* nil, p.Hide and p.Grid() are calls on a nil interface: the handler
\* panics before any toolkit call.
Remove(d, p) ==
    IF p = NoPanel
    THEN [d EXCEPT !.panic = TRUE]
    ELSE [d EXCEPT !.attached = @ \ {p},
                   !.shown = @ \ {p},
                   !.ops = @ \o << Op("detach", p, d.attached \ {p}),
                                   Op("hide", p, d.attached \ {p}) >>]

\* ui.g.ShowAll(): the slot shows every panel attached to it; the call
\* names no panel
ShowAll(d) ==
    [d EXCEPT !.shown = @ \cup d.attached,
              !.ops = @ \o << Op("showall", NoPanel, d.attached) >>]

AddAttachFirst(d, p) ==
    LET d1 == [d EXCEPT !.Current = p,
                        !.shown = @ \cup {p},
                        !.attached = @ \cup {p},
                        !.ops = @ \o << Op("show", p, d.attached),
                                        Op("attach", p, d.attached \cup {p}) >>]
    IN  IF d.Current # NoPanel /\ d.Current # p
        THEN ShowAll(Remove(d1, d.Current))
        ELSE ShowAll(d1)

AddChecksNil(d, p) ==
    IF p = NoPanel
    THEN d
    ELSE LET d1 == IF d.Current # NoPanel THEN Remove(d, d.Current) ELSE d
         IN  ShowAll([d1 EXCEPT !.Current = p,
                                !.shown = @ \cup {p},
                                !.attached = @ \cup {p},
                                !.ops = @ \o << Op("show", p, d1.attached),
                                                Op("attach", p,
                                                   d1.attached \cup {p}) >>])

\* ui.Add(p).  With p nil, ui.Current.Show() is a call on a nil interface:
\* the handler panics after the old panel was removed and Current was set.
Add(d, p) ==
    LET d1 == IF d.Current # NoPanel THEN Remove(d, d.Current) ELSE d
        d2 == [d1 EXCEPT !.Current = p]
    IN  IF p = NoPanel
        THEN [d2 EXCEPT !.panic = TRUE]
        ELSE ShowAll([d2 EXCEPT !.shown = @ \cup {p},
                                !.attached = @ \cup {p},
                                !.ops = @ \o << Op("show", p, d1.attached),
                                                Op("attach", p,
                                                   d1.attached \cup {p}) >>])

\* p.Parent()
Parent(ps, p) == ps[p].parent

RECURSIVE Root(_, _)
Root(ps, p) == IF ps[p].parent = NoPanel THEN p ELSE Root(ps, ps[p].parent)

GoHistoryToRoot(d, ps) ==
    IF d.Current = NoPanel
    THEN [d EXCEPT !.panic = TRUE]
    ELSE Add(d, Root(ps, d.Current))

GoHistoryStay(d, ps) ==
    IF d.Current = NoPanel
    THEN [d EXCEPT !.panic = TRUE]
    ELSE Add(d, d.Current)

\* ui.GoHistory().  With no current panel, ui.Current.Parent() is a call on
\* a nil interface: the handler panics before Add is called.
GoHistory(d, ps) ==
    IF d.Current = NoPanel
    THEN [d EXCEPT !.panic = TRUE]
    ELSE Add(d, Parent(ps, d.Current))

\* the panel constructors
IdleStatusPanel == [kind |-> "idle", parent |-> NoPanel]
PrintStatusPanel == [kind |-> "printing", parent |-> NoPanel]
NewSplashPanel == [kind |-> "splash", parent |-> NoPanel]
ChildPanel(parent) == [kind |-> "sub", parent |-> parent]

Display == [Current |-> Current, attached |-> attached, shown |-> shown,
            ops |-> <<>>, panic |-> FALSE]

----------------------------------------------------------------------------
(* UI.verifyConnection *)

Outcome(mode, connect, write, text) ==
    [mode |-> mode, connect |-> connect, write |-> write, text |-> text]

ClassifyPrintingFirst(s, cerr) ==
    IF IsPrinting(s) THEN Outcome("printing", FALSE, FALSE, <<>>)
    ELSE IF IsOperational(s) THEN Outcome("idle", FALSE, FALSE, <<>>)
    ELSE IF IsConnecting(s) THEN Outcome("splash", FALSE, TRUE, StateText(s))
    ELSE IF IsError(s) \/ IsOffline(s)
         THEN IF ~cerr.isNil
              THEN Outcome("splash", TRUE, TRUE, ConnectErrText(cerr.text))
              ELSE Outcome("splash", TRUE, FALSE, <<>>)
    ELSE Outcome("splash", FALSE, FALSE, <<>>)

ClassifyConnectingSilent(s, cerr) ==
    IF IsOperational(s) THEN Outcome("idle", FALSE, FALSE, <<>>)
    ELSE IF IsPrinting(s) THEN Outcome("printing", FALSE, FALSE, <<>>)
    ELSE IF IsError(s) \/ IsOffline(s)
         THEN IF ~cerr.isNil
              THEN Outcome("splash", TRUE, TRUE, ConnectErrText(cerr.text))
              ELSE Outcome("splash", TRUE, FALSE, <<>>)
    ELSE Outcome("splash", FALSE, FALSE, <<>>)

ClassifyOptimistic(s, cerr) ==
    IF IsOperational(s) THEN Outcome("idle", FALSE, FALSE, <<>>)
    ELSE IF IsPrinting(s) THEN Outcome("printing", FALSE, FALSE, <<>>)
    ELSE IF IsError(s) \/ IsOffline(s)
         THEN IF ~cerr.isNil
              THEN Outcome("splash", TRUE, TRUE, ConnectErrText(cerr.text))
              ELSE Outcome("idle", TRUE, FALSE, <<>>)
    ELSE IF IsConnecting(s) THEN Outcome("splash", FALSE, TRUE, StateText(s))
    ELSE Outcome("splash", FALSE, FALSE, <<>>)

ClassifyNoFallthrough(s, cerr) ==
    IF IsOperational(s) THEN Outcome("idle", FALSE, FALSE, <<>>)
    ELSE IF IsPrinting(s) THEN Outcome("printing", FALSE, FALSE, <<>>)
    ELSE IF IsError(s) THEN Outcome("splash", FALSE, FALSE, <<>>)
    ELSE IF IsOffline(s)
         THEN IF ~cerr.isNil
              THEN Outcome("splash", TRUE, TRUE, ConnectErrText(cerr.text))
              ELSE Outcome("splash", TRUE, FALSE, <<>>)
    ELSE IF IsConnecting(s) THEN Outcome("splash", FALSE, TRUE, StateText(s))
    ELSE Outcome("splash", FALSE, FALSE, <<>>)

ClassifyIdleConnects(s, cerr) ==
    IF IsOperational(s) THEN Outcome("idle", TRUE, FALSE, <<>>)
    ELSE IF IsPrinting(s) THEN Outcome("printing", FALSE, FALSE, <<>>)
    ELSE IF IsError(s) \/ IsOffline(s)
         THEN IF ~cerr.isNil
              THEN Outcome("splash", TRUE, TRUE, ConnectErrText(cerr.text))
              ELSE Outcome("splash", TRUE, FALSE, <<>>)
    ELSE IF IsConnecting(s) THEN Outcome("splash", FALSE, TRUE, StateText(s))
    ELSE Outcome("splash", FALSE, FALSE, <<>>)

\* the switch over the state of a successful query; cerr is what the
\* connect request returns if it is made
Classify(s, cerr) ==
    IF IsOperational(s) THEN Outcome("idle", FALSE, FALSE, <<>>)
    ELSE IF IsPrinting(s) THEN Outcome("printing", FALSE, FALSE, <<>>)
    ELSE IF IsError(s) \/ IsOffline(s)
         THEN IF ~cerr.isNil
              THEN Outcome("splash", TRUE, TRUE, ConnectErrText(cerr.text))
              ELSE Outcome("splash", TRUE, FALSE, <<>>)
    ELSE IF IsConnecting(s) THEN Outcome("splash", FALSE, TRUE, StateText(s))
    ELSE Outcome("splash", FALSE, FALSE, <<>>)

QueryFailedErrorMode(qerr, d, ep, k) ==
    Outcome("error", FALSE, PastMercy(d), errToUser(qerr.text, ep, k))

\* the else branch: the query itself failed with qerr, d seconds after New
QueryFailed(qerr, d, ep, k) ==
    Outcome("splash", FALSE, PastMercy(d), errToUser(qerr.text, ep, k))

SameModeNever(new, old) == FALSE

SameModeAlways(new, old) == TRUE

\* newUiState == ui.UIState
SameMode(new, old) == new = old

PanelForModeFresh(mode, ps) ==
    CASE mode = "idle" ->
            [panels |-> Append(ps, IdleStatusPanel), p |-> Len(ps) + 1]
      [] mode = "printing" ->
            [panels |-> Append(ps, PrintStatusPanel), p |-> Len(ps) + 1]
      [] OTHER ->
            [panels |-> Append(ps, NewSplashPanel), p |-> Len(ps) + 1]

\* the switch over newUiState: the panel handed to ui.Add, and the panels
\* that exist after constructing it
PanelForMode(mode, ps) ==
    CASE mode = "idle" ->
            [panels |-> Append(ps, IdleStatusPanel), p |-> Len(ps) + 1]
      [] mode = "printing" ->
            [panels |-> Append(ps, PrintStatusPanel), p |-> Len(ps) + 1]
      [] OTHER ->
            [panels |-> ps, p |-> SplashId]

\* last: the handler that ran in the last step ("none" after time passed),
\* the errors the printer answered with, and whether a connect was requested
NoLast == [kind |-> "none", qerr |-> NilErr, s |-> NoState,
           cerr |-> NilErr, connect |-> FALSE, sd |-> NilErr, io |-> <<>>]

sdNotifyFatal(sdErr) == [logged |-> ~sdErr.isNil, returns |-> sdErr.isNil]

\* ui.sdNotify(m): the error of daemon.SdNotify is logged and the call
\* returns to its caller either way
sdNotify(sdErr) == [logged |-> ~sdErr.isNil, returns |-> TRUE]

\* the requests one run of verifyConnection sends out, in order
Requests(queried, connect) ==
    <<"WATCHDOG=1">>
    \o (IF queried THEN <<"ConnectionRequest">> ELSE <<>>)
    \o (IF connect THEN <<"ConnectRequest">> ELSE <<>>)

RecordModeOnce(new, old) == IF old = "" THEN new ELSE old

\* the deferred ui.UIState = newUiState
RecordMode(new, old) == new

\* a run of verifyConnection that waits for the printer: for its connection
\* request (phase "query") or for its connect request (phase "connect"),
\* with the state s its query reported and what the liveness sink answered
\* it
Waiting(phase, s, sd) == [phase |-> phase, s |-> s, sd |-> sd]

\* the list of waiting runs, in the order they began, once run i has
\* returned
Finished(q, i) == SubSeq(q, 1, i - 1) \o SubSeq(q, i + 1, Len(q))

\* verifyConnection from its last request on: the message, the comparison
\* with the recorded mode, the swap and the deferred assignment.  r is the
\* outcome of the classification, s the state the run's query reported.
Complete(r, sd, qerr, s, cerr) ==
    LET changed == ~SameMode(r.mode, UIState)
        inst == PanelForMode(r.mode, panels)
        d == IF changed THEN Add(Display, inst.p) ELSE Display
    IN  /\ changed => Len(inst.panels) <= MaxPanels
        /\ label' = IF r.write THEN r.text ELSE label
        /\ UIState' = RecordMode(r.mode, UIState)
        /\ panels' = IF changed THEN inst.panels ELSE panels
        /\ Current' = d.Current
        /\ attached' = d.attached
        /\ shown' = d.shown
        /\ ops' = d.ops
        /\ alive' = (alive /\ ~d.panic)
        /\ last' = [kind |-> "tick", qerr |-> qerr, s |-> s,
                    cerr |-> IF r.connect THEN cerr ELSE NilErr,
                    connect |-> r.connect, sd |-> sd,
                    io |-> Requests(TRUE, r.connect)]

\* verifyConnection up to its first wait: the liveness signal, then the
\* connection request is sent (ConnectionRequest.Do blocks until the
\* printer answers; no lock is held meanwhile).  sd is what the liveness
\* sink answers.
Begin(sd) ==
    /\ Len(pending) < MaxPending
    /\ IF sdNotify(sd).returns
       THEN /\ pending' = Append(pending,
                                 Waiting("query", NoState, sd))
            /\ alive' = alive
       ELSE /\ pending' = pending
            /\ alive' = FALSE
    /\ ops' = <<>>
    /\ last' = [NoLast EXCEPT !.kind = "begin", !.sd = sd,
                              !.io = Requests(sdNotify(sd).returns, FALSE)]
    /\ UNCHANGED <<Current, UIState, State, label, endpoint, key, elapsed,
                   panels, attached, shown, env>>

\* the connection request of run i returns with error qerr or, if qerr is
\* nil, with state s: ui.State is written and the state classified; for an
\* error or offline state the connect request is sent and the run waits
\* again (ConnectRequest.Do), otherwise the run goes on to its end
Answer(i, qerr, s) ==
    /\ pending[i].phase = "query"
    /\ IF ~qerr.isNil
       THEN /\ State' = State
            /\ Complete(QueryFailed(qerr, elapsed, endpoint, key),
                        pending[i].sd, qerr, NoState, NilErr)
            /\ pending' = Finished(pending, i)
       ELSE IF Classify(s, NilErr).connect
       THEN /\ State' = s
            /\ pending' = [pending EXCEPT ![i] =
                              Waiting("connect", s, pending[i].sd)]
            /\ ops' = <<>>
            /\ last' = [NoLast EXCEPT !.kind = "wait", !.s = s,
                                      !.connect = TRUE,
                                      !.sd = pending[i].sd,
                                      !.io = Requests(TRUE, TRUE)]
            /\ UNCHANGED <<Current, UIState, label, panels, attached,
                           shown, alive>>
       ELSE /\ State' = s
            /\ Complete(Classify(s, NilErr), pending[i].sd, NilErr, s,
                        NilErr)
            /\ pending' = Finished(pending, i)
    /\ UNCHANGED <<endpoint, key, elapsed, env>>

\* the connect request of run i returns with cerr (nil on success)
Reply(i, cerr) ==
    /\ pending[i].phase = "connect"
    /\ Complete(Classify(pending[i].s, cerr), pending[i].sd, NilErr,
                pending[i].s, cerr)
    /\ pending' = Finished(pending, i)
    /\ UNCHANGED <<State, endpoint, key, elapsed, env>>

\* the printer answers the connection request of a waiting run with a
\* state of S or an error of E
Query(S, E) ==
    \E i \in DOMAIN pending :
        \/ \E s \in S : Answer(i, NilErr, s)
        \/ \E qerr \in E : Answer(i, qerr, NoState)

\* the printer answers the connect request of a waiting run, with success
\* or an error of E
Connect(E) ==
    \E i \in DOMAIN pending, cerr \in {NilErr} \cup E : Reply(i, cerr)

\* the error of a printer that is not listening, for the specifications in
\* which the variety of error texts is not at stake
PlainErrors == { Err(<<"dial", "tcp:", "connection", "refused">>) }

\* a refused connection and another error, for the wording of the message
TextErrors == PlainErrors \cup { Err(<<"timeout">>) }

\* the poller calls verifyConnection
TickBegin ==
    /\ alive
    /\ Begin(NilErr)

QueryReturn ==
    /\ alive
    /\ Query(ConnStates, PlainErrors)

ConnectReturn ==
    /\ alive
    /\ Connect(PlainErrors)

\* one step of a run of verifyConnection, the poller's callback
verifyConnection == TickBegin \/ QueryReturn \/ ConnectReturn

\* the same with a query that fails in more than one way
QueryReturnText ==
    /\ alive
    /\ Query(ConnStates, TextErrors)

verifyConnectionText == TickBegin \/ QueryReturnText \/ ConnectReturn

\* the connection request answered by an API whose five predicates answer
\* in any combination
QueryReturnAnyState ==
    /\ alive
    /\ Query(AllConnStates, PlainErrors)

\* the connect request succeeds
ConnectReturnOk ==
    /\ alive
    /\ Connect({})

verifyConnectionAnyState == TickBegin \/ QueryReturnAnyState \/ ConnectReturnOk

\* a handler of the navigator has run: it leaves the display d and the
\* panels ps, and touches nothing else of the UI
Handled(kind, d, ps) ==
    /\ panels' = ps
    /\ Current' = d.Current
    /\ attached' = d.attached
    /\ shown' = d.shown
    /\ ops' = d.ops
    /\ alive' = ~d.panic
    /\ last' = [NoLast EXCEPT !.kind = kind]
    /\ UNCHANGED <<UIState, State, label, endpoint, key, elapsed, pending,
                   env>>

\* a panel's button opens a sub-panel: ui.Add(child) with child.Parent()
\* the panel that built it
ShowPanel ==
    /\ alive
    /\ Current # NoPanel
    /\ Len(panels) < MaxPanels
    /\ Handled("show", Add(Display, Len(panels) + 1),
               Append(panels, ChildPanel(Current)))

\* a panel's back button: ui.GoHistory()
GoBack ==
    /\ alive
    /\ Handled("back", GoHistory(Display, panels), panels)

\* the panels a caller can hand to the navigator: one built so far, or nil
Arguments == {NoPanel} \cup DOMAIN panels

\* any caller: ui.Add(p) of a panel built before, or of nil
CallAdd ==
    /\ alive
    /\ \E p \in Arguments : Handled("show", Add(Display, p), panels)

\* any caller: ui.Add of a panel it has just built, with any panel or none
\* as its parent
CallAddNew ==
    /\ alive
    /\ Len(panels) < MaxPanels
    /\ \E q \in Arguments :
          Handled("show", Add(Display, Len(panels) + 1),
                  Append(panels, ChildPanel(q)))

\* any caller: ui.Remove(p)
CallRemove ==
    /\ alive
    /\ \E p \in Arguments : Handled("remove", Remove(Display, p), panels)

\* time passes
Advance ==
    /\ alive
    /\ \E t \in Times :
          /\ t > elapsed
          /\ elapsed' = t
    /\ ops' = <<>>
    /\ last' = NoLast
    /\ UNCHANGED <<Current, UIState, State, label, endpoint, key, panels,
                   attached, shown, alive, pending, env>>

\* the state New returns: no panel shown, no mode recorded, the splash
\* panel built
Init ==
    /\ Current = NoPanel
    /\ UIState = ""
    /\ State = NoState
    /\ label = <<>>
    /\ endpoint \in Endpoints
    /\ key \in Keys
    /\ elapsed = 0
    /\ panels = << NewSplashPanel >>
    /\ attached = {}
    /\ shown = {}
    /\ alive = TRUE
    /\ ops = <<>>
    /\ last = NoLast
    /\ pending = <<>>
    /\ env = "any"

\* one key is configured
InitOneKey == Init /\ key = <<"k1">>

\* the poller and the user's navigation
Next == verifyConnection \/ ShowPanel \/ GoBack

Spec == InitOneKey /\ [][Next]_vars

\* no key or a key is configured
InitText == Init /\ key \in { <<>>, <<"k1">> }

\* the poller and the clock
NextText == verifyConnectionText \/ Advance

SpecText == InitText /\ [][NextText]_vars

\* the connection request answered by a printer that is operational or
\* printing, or not answered: every mode is recorded, no connect is asked
QueryReturnModes ==
    /\ alive
    /\ Query({ s \in ConnStates : IsOperational(s) \/ IsPrinting(s) },
             PlainErrors)

verifyConnectionModes == TickBegin \/ QueryReturnModes

\* the poller and callers that use the navigator in every way it is
\* exported: Add and Remove of any panel or nil, GoHistory at any time
NextCallers ==
    verifyConnectionModes \/ CallAdd \/ CallAddNew \/ CallRemove \/ GoBack

SpecCallers == InitOneKey /\ [][NextCallers]_vars

\* the poller only, over every combination of the predicates
NextAnyState == verifyConnectionAnyState

SpecAnyState == InitOneKey /\ [][NextAnyState]_vars

\* the errors of the liveness sink
SinkErrors == { Err(<<"sink", "unreachable">>) }

\* the poller calls verifyConnection and the liveness sink may fail
TickBeginSink ==
    /\ alive
    /\ \E sd \in {NilErr} \cup SinkErrors : Begin(sd)

verifyConnectionSink == TickBeginSink \/ QueryReturn \/ ConnectReturn

NextSink == verifyConnectionSink

SpecSink == InitOneKey /\ [][NextSink]_vars

----------------------------------------------------------------------------
(* The poller keeps calling verifyConnection and the printer answers every *)
(* request without error.  The printer may settle: from then on every      *)
(* connection request reports operational (env = "op"), or printing and    *)
(* not operational (env = "pr").                                           *)

\* the mode the settled printer's answers give
Target == IF env = "op" THEN "idle" ELSE "printing"

\* the runs whose query was answered, with an error or offline state, before
\* the printer settled and whose connect request is still out
Stale == { i \in DOMAIN pending : pending[i].phase = "connect" }

\* the panels that are still to be constructed once the printer has settled
\* on target: one for each return to the target mode
Room(target) ==
    Cardinality(Stale) + (IF UIState = target THEN 0 ELSE 1)

Settle ==
    /\ alive
    /\ env = "any"
    /\ \E e \in {"op", "pr"} :
          /\ env' = e
          /\ Len(panels) + Room(IF e = "op" THEN "idle" ELSE "printing")
                <= MaxPanels
    /\ ops' = <<>>
    /\ last' = NoLast
    /\ UNCHANGED <<Current, UIState, State, label, endpoint, key, elapsed,
                   panels, attached, shown, alive, pending>>

QueryReturnLive ==
    /\ alive
    /\ IF env = "any"
       THEN Query(ConnStates, {})
       ELSE Query({ s \in ConnStates :
                      /\ env = "op" => IsOperational(s)
                      /\ env = "pr" => (IsPrinting(s) /\ ~IsOperational(s)) },
                  {})

NextLive == Settle \/ TickBegin \/ QueryReturnLive \/ ConnectReturnOk

\* the poller calls again and again, and every request is answered
SpecLive ==
    /\ InitOneKey
    /\ [][NextLive]_vars
    /\ WF_vars(TickBegin)
    /\ WF_vars(QueryReturnLive)
    /\ WF_vars(ConnectReturnOk)

----------------------------------------------------------------------------
(* A handler that panicked (alive = FALSE) has left the UI as it was at   *)
(* the panic.  Where the event loop survives the failed handler, the      *)
(* poller goes on calling verifyConnection on that state.                 *)

\* the same steps of a run, taken whether or not a handler has panicked
TickBeginRecovered ==
    /\ alive \in BOOLEAN
    /\ Begin(NilErr)

QueryReturnRecovered ==
    /\ alive \in BOOLEAN
    /\ Query(ConnStates, PlainErrors)

ConnectReturnRecovered ==
    /\ alive \in BOOLEAN
    /\ Connect(PlainErrors)

verifyConnectionRecovered ==
    TickBeginRecovered \/ QueryReturnRecovered \/ ConnectReturnRecovered

NextRecover == verifyConnectionRecovered \/ GoBack

SpecRecover == InitOneKey /\ [][NextRecover]_vars

----------------------------------------------------------------------------
(* Properties *)

TickStep == last'.kind = "tick"

\* the toolkit calls of a handler, without the attached-count annotation
Calls(seq) == [i \in DOMAIN seq |-> <<seq[i].op, seq[i].p>>]

\* C1: a tick whose target mode equals the recorded mode makes no toolkit
\* call (no attach, detach, show or hide), constructs no panel and leaves
\* the current panel and the display slot as they were, also when the
\* current panel is a sub-panel the user navigated to.
C1_SameModeTickIdempotent ==
    [][ (TickStep /\ UIState' = UIState) =>
            /\ ops' = <<>>
            /\ Current' = Current
            /\ attached' = attached
            /\ shown' = shown
            /\ panels' = panels ]_vars

\* a same-mode tick has just run while a sub-panel is the current panel
C1_Witness ==
    /\ last.kind = "tick"
    /\ ops = <<>>
    /\ Current # NoPanel
    /\ panels[Current].kind = "sub"
    /\ attached = {Current}

\* C2 as stated: every tick that changes the recorded mode, the first one
\* included, detaches exactly one panel (the one current before), hides it,
\* and then shows and attaches the new mode's panel (and the slot shows its
\* content).
C2_Original ==
    [][ (TickStep /\ UIState' # UIState) =>
            Calls(ops') = << <<"detach", Current>>, <<"hide", Current>>,
                             <<"show", Current'>>, <<"attach", Current'>>,
                             <<"showall", NoPanel>> >> ]_vars

\* C2 amended: a mode-changing tick attaches the new panel exactly once; if
\* a panel is current it is detached exactly once and hidden before that;
\* on the first tick (no mode recorded, no panel current) nothing is
\* detached.
C2_SwapOrder ==
    [][ (TickStep /\ UIState' # UIState) =>
            /\ (Current = NoPanel) <=> (UIState = "")
            /\ Calls(ops') =
                  (IF Current # NoPanel
                   THEN << <<"detach", Current>>, <<"hide", Current>> >>
                   ELSE <<>>)
                  \o << <<"show", Current'>>, <<"attach", Current'>>,
                        <<"showall", NoPanel>> >>
            /\ Current' # NoPanel ]_vars

\* a tick has just swapped the idle panel out and the printing panel in
C2_Witness ==
    /\ last.kind = "tick"
    /\ UIState = "printing"
    /\ Len(ops) = 5
    /\ ops[1].op = "detach"
    /\ panels[ops[1].p].kind = "idle"
    /\ ops[4].op = "attach"
    /\ ops[4].p = Current
    /\ ops[5].op = "showall"

\* C3 as stated: at most one panel is attached to the slot, in every state
\* and after every toolkit call; after each completed Add exactly one is
\* attached and it is the current panel; and the slot is empty only inside
\* a swap, so in no state between two handlers.
C3_Original ==
    /\ Cardinality(attached) <= 1
    /\ \A i \in DOMAIN ops : ops[i].n <= 1
    /\ (alive /\ last.kind = "show") => attached = {Current}
    /\ attached # {}

\* C3 amended: at most one panel is attached to the slot, in every state
\* and after every single toolkit call inside a handler, and never another
\* than the current one; after every Add, GoHistory and mode-changing tick
\* that ran to completion exactly one is attached and it is the current
\* panel.  The slot is empty from New until the first installation (no
\* panel is current, no mode recorded, nothing shown), however long the
\* first run waits; after that an occupied slot is left empty by a handler
\* only if that handler is a direct call of Remove or a call that failed
\* (Add of nil, GoHistory without a parent): ticks, Add and GoHistory to a
\* parent empty it only between the detach and the attach of a swap.
C3_OnePanelAttached ==
    /\ [](/\ Cardinality(attached) <= 1
          /\ \A i \in DOMAIN ops : ops[i].n <= 1
          /\ attached \subseteq {Current}
          /\ (alive /\ Current = NoPanel) =>
                (attached = {} /\ shown = {} /\ UIState = "")
          /\ (alive /\ Current # NoPanel /\ attached = {}) =>
                Current \notin shown)
    /\ [][ /\ (alive' /\ last'.kind \in {"show", "back"}) =>
                (Current' # NoPanel /\ attached' = {Current'})
           /\ (TickStep /\ UIState' # UIState) =>
                (Current' # NoPanel /\ attached' = {Current'})
           /\ (TickStep /\ UIState' = UIState) => attached' = attached
           /\ (attached # {} /\ attached' = {}) =>
                (last'.kind = "remove" \/ ~alive')
           /\ (alive /\ Current = NoPanel /\ last'.kind \in {"begin", "remove"})
                => (Current' = NoPanel /\ attached' = {}) ]_vars

\* a caller's Add of the splash panel has just swapped it in for the idle
\* panel, passing through an empty slot, while the recorded mode is idle
C3_Witness ==
    /\ last.kind = "show"
    /\ Len(ops) = 5
    /\ ops[1].n = 0
    /\ ops[4].n = 1
    /\ attached = {Current}
    /\ panels[Current].kind = "splash"
    /\ UIState = "idle"

\* C4 as stated: a failed query at d seconds leaves the message unchanged if
\* d < 30 and overwrites it with the formatted error if d >= 30.
C4_Original ==
    [][ (TickStep /\ ~last'.qerr.isNil) =>
            IF elapsed < errMercyPeriod
            THEN label' = label
            ELSE label' = errToUser(last'.qerr.text, endpoint, key) ]_vars

\* C4 amended: a failed query at d seconds leaves the message unchanged if
\* d <= 30 (exactly 30 included) and overwrites it with the formatted error
\* if d > 30, on every such tick, whatever the recorded mode.
C4_MercyPeriod ==
    [][ (TickStep /\ ~last'.qerr.isNil) =>
            /\ elapsed' = elapsed
            /\ IF elapsed <= errMercyPeriod
               THEN label' = label
               ELSE label' = errToUser(last'.qerr.text, endpoint, key) ]_vars

\* a query has just failed exactly 30 seconds after New and the message is
\* still blank
C4_Witness ==
    /\ last.kind = "tick"
    /\ ~last.qerr.isNil
    /\ elapsed = errMercyPeriod
    /\ label = <<>>
    /\ UIState = "splash"

\* C5: after a successful query, first match wins in the order operational,
\* printing, error-or-offline, connecting: operational gives idle and printing
\* (when not operational) gives printing, both without a connect request;
\* error or offline (when neither) asks for a connect and does not show the
\* state label; connecting alone shows the state label.
C5_Precedence ==
    (last.kind = "tick" /\ last.qerr.isNil) =>
        /\ IsOperational(last.s) => (UIState = "idle" /\ ~last.connect)
        /\ (~IsOperational(last.s) /\ IsPrinting(last.s)) =>
                (UIState = "printing" /\ ~last.connect)
        /\ (~IsOperational(last.s) /\ ~IsPrinting(last.s)
              /\ (IsError(last.s) \/ IsOffline(last.s))) =>
                (UIState = "splash" /\ last.connect
                    /\ label # StateText(last.s))
        /\ (~IsOperational(last.s) /\ ~IsPrinting(last.s) /\ ~IsError(last.s)
              /\ ~IsOffline(last.s) /\ IsConnecting(last.s)) =>
                (UIState = "splash" /\ ~last.connect
                    /\ label = StateText(last.s))

\* a tick has just classified a state that is operational, printing and in
\* error at once
C5_Witness ==
    /\ last.kind = "tick"
    /\ last.qerr.isNil
    /\ IsOperational(last.s) /\ IsPrinting(last.s) /\ IsError(last.s)
    /\ UIState = "idle"

\* C6: GoHistory from a panel with a parent makes that parent, the very
\* panel the child's Parent() returns, current and the only attached panel,
\* constructs no panel, and leaves the child detached and hidden.
C6_GoBackToParent ==
    [][ (/\ last'.kind = "back"
         /\ Current # NoPanel
         /\ Parent(panels, Current) # NoPanel) =>
            /\ Current' = Parent(panels, Current)
            /\ attached' = {Current'}
            /\ Current' \in shown'
            /\ Current \notin shown'
            /\ Current \notin attached'
            /\ panels' = panels
            /\ alive' ]_vars

\* GoHistory has just returned from a sub-panel to the sub-panel that opened
\* it
C6_Witness ==
    /\ last.kind = "back"
    /\ alive
    /\ Current # NoPanel
    /\ panels[Current].kind = "sub"
    /\ attached = {Current}
    /\ Len(ops) = 5

\* C7 as stated: when the query reports Error or Offline and the connect
\* request fails with a text containing "connection refused", the splash
\* message is the friendly message of errToUser and the mode is splash.
C7_Original ==
    (/\ last.kind = "tick"
     /\ last.qerr.isNil
     /\ IsError(last.s) \/ IsOffline(last.s)
     /\ ~last.cerr.isNil
     /\ Contains(last.cerr.text, Refused)) =>
        /\ label = errToUser(last.cerr.text, endpoint, key)
        /\ UIState = "splash"

\* C7 amended: when the query reports Error or Offline and the connect
\* request fails, the splash message is "Error connecting to printer: "
\* followed by the error's own text, whatever that text is (errToUser is
\* not applied), and the mode is splash.
C7_ConnectFailureMessage ==
    (/\ last.kind = "tick"
     /\ last.qerr.isNil
     /\ IsError(last.s) \/ IsOffline(last.s)
     /\ ~last.cerr.isNil) =>
        /\ last.connect
        /\ label = <<"Error connecting to printer:">> \o last.cerr.text
        /\ UIState = "splash"

\* the query has just reported Error and the connect was refused
C7_Witness ==
    /\ last.kind = "tick"
    /\ last.qerr.isNil
    /\ IsError(last.s)
    /\ last.connect
    /\ ~last.cerr.isNil
    /\ Contains(last.cerr.text, Refused)
    /\ label = <<"Error connecting to printer:", "dial", "tcp:",
                 "connection", "refused">>
    /\ UIState = "splash"

\* the message a failed query has just put on the splash panel
FormattedNow ==
    /\ last.kind = "tick"
    /\ ~last.qerr.isNil
    /\ elapsed > errMercyPeriod

\* C8: the output of errToUser depends on the key only through its
\* emptiness: any other key that is empty exactly when the configured one
\* is gives the same output.  For a text containing "connection refused"
\* the output holds the endpoint and the key-present boolean and not the key;
\* for any other text it is the generic fallback holding that text.
C8_FormatterIgnoresKeyValue ==
    FormattedNow =>
        LET text == last.qerr.text
        IN  /\ \A k \in Keys :
                  ((k = <<>>) <=> (key = <<>>)) =>
                      errToUser(text, endpoint, k) = label
            /\ Contains(text, Refused) =>
                  /\ Contains(label, endpoint)
                  /\ Contains(label, BoolText(key # <<>>))
                  /\ key # <<>> => ~Contains(label, key)
                  /\ ~Contains(label, text)
            /\ ~Contains(text, Refused) =>
                  /\ label = <<"Unexpected error:">> \o text
                  /\ ~Contains(label, endpoint)

\* a refused query has just been formatted with a non-empty key configured
C8_Witness ==
    /\ FormattedNow
    /\ Contains(last.qerr.text, Refused)
    /\ key = <<"k1">>
    /\ label = <<"Unable to connect to", "\"", "http://host:80", "\"",
                 "(Key:", "true", "),", "maybe OctoPrint not running?">>

\* error text of either origin: a failed query's or a failed connect's
IsErrorText(m) ==
    /\ m # <<>>
    /\ m[1] \in {"Unable to connect to", "Unexpected error:",
                 "Error connecting to printer:"}

\* the text errToUser gives some error
IsQueryErrorText(m) == \E t \in ErrTexts : m = errToUser(t, endpoint, key)

\* C9 as stated: within the first 30 seconds no tick, whatever its query or
\* connect outcome, has put error text on the splash panel.
C9_Original == elapsed < errMercyPeriod => ~IsErrorText(label)

\* C9 amended: the error text of a failed query is on the splash panel only
\* once more than 30 seconds have passed since New; the only error text a
\* tick can show before that is the one of a failed connect request.
C9_QueryErrorsAfterMercy ==
    /\ IsQueryErrorText(label) => elapsed > errMercyPeriod
    /\ (elapsed <= errMercyPeriod /\ IsErrorText(label)) =>
            label[1] = "Error connecting to printer:"

\* a query has just failed inside the mercy period, and the only error text
\* on the splash panel is that of an earlier failed connect
C9_Witness ==
    /\ last.kind = "tick"
    /\ ~last.qerr.isNil
    /\ elapsed < errMercyPeriod
    /\ IsErrorText(label)
    /\ ~IsQueryErrorText(label)

\* C10: a mode-changing tick installs the panel of the new recorded mode:
\* an idle-status panel for idle, a printing-status panel for printing, and
\* for splash the splash panel built by New, without constructing a panel.
C10_PanelMatchesMode ==
    [][ (TickStep /\ UIState' # UIState) =>
            /\ UIState' \in {"idle", "printing", "splash"}
            /\ Current' # NoPanel
            /\ panels'[Current'].kind = UIState'
            /\ attached' = {Current'}
            /\ UIState' = "splash" =>
                  (Current' = SplashId /\ panels' = panels)
            /\ UIState' # "splash" =>
                  (Current' = Len(panels') /\ Len(panels') = Len(panels) + 1) ]_vars

\* a tick has just returned to splash from another mode and re-installed the
\* splash panel built by New
C10_Witness ==
    /\ last.kind = "tick"
    /\ UIState = "splash"
    /\ Current = SplashId
    /\ Len(panels) > 1
    /\ Len(ops) = 5
    /\ ops[1].p # SplashId
    /\ attached = {SplashId}

\* C11: a successful query whose state is connecting (and nothing else)
\* gives target mode splash, puts the raw state label on the splash panel
\* whatever the time since New, and asks for no connect.
C11_ConnectingShowsLabel ==
    (/\ last.kind = "tick"
     /\ last.qerr.isNil
     /\ IsConnecting(last.s)
     /\ ~IsOperational(last.s) /\ ~IsPrinting(last.s)
     /\ ~IsError(last.s) /\ ~IsOffline(last.s)) =>
        /\ UIState = "splash"
        /\ label = StateText(last.s)
        /\ label = <<"Connecting">>
        /\ ~last.connect
        /\ last.io = <<"WATCHDOG=1", "ConnectionRequest">>

\* a connecting state has just been shown inside the mercy period
C11_Witness ==
    /\ last.kind = "tick"
    /\ last.qerr.isNil
    /\ IsConnecting(last.s)
    /\ elapsed < errMercyPeriod
    /\ label = <<"Connecting">>
    /\ UIState = "splash"

\* C12: a tick whose query reports error or offline and whose connect
\* succeeds records splash (never idle or printing) and leaves the splash
\* message as it was; idle and printing are only ever recorded by a tick
\* whose own query succeeded and reported operational, respectively
\* printing.
C12_NoOptimisticTransition ==
    [][ TickStep =>
            /\ (last'.connect /\ last'.cerr.isNil) =>
                    (UIState' = "splash" /\ label' = label)
            /\ UIState' = "idle" =>
                    (last'.qerr.isNil /\ IsOperational(last'.s))
            /\ UIState' = "printing" =>
                    (last'.qerr.isNil /\ IsPrinting(last'.s)) ]_vars

\* a connect has just succeeded on a tick that left idle for splash
C12_Witness ==
    /\ last.kind = "tick"
    /\ last.connect
    /\ last.cerr.isNil
    /\ IsOffline(last.s)
    /\ UIState = "splash"
    /\ Len(ops) = 5
    /\ panels[ops[1].p].kind = "idle"

\* C13: a tick asks for a connect exactly when its query succeeded with a
\* state that is error or offline and neither operational nor printing; it
\* does so on every such tick (also when the mode was splash already) and
\* after the connection request; no other handler asks for one.
C13_ConnectExactlyOnErrorOrOffline ==
    /\ last.kind \in {"tick", "wait"} =>
          /\ last.connect <=>
                (/\ last.qerr.isNil
                 /\ ~IsOperational(last.s) /\ ~IsPrinting(last.s)
                 /\ IsError(last.s) \/ IsOffline(last.s))
          /\ last.io = IF last.connect
                       THEN <<"WATCHDOG=1", "ConnectionRequest", "ConnectRequest">>
                       ELSE <<"WATCHDOG=1", "ConnectionRequest">>
    /\ last.kind = "wait" => last.connect
    /\ last.kind = "begin" =>
          (~last.connect /\ last.io = <<"WATCHDOG=1", "ConnectionRequest">>)
    /\ last.kind \notin {"tick", "wait", "begin"} =>
          (~last.connect /\ last.io = <<>>)

\* a connect has just been asked for on a tick that found the mode already
\* splash, for a state that is error and connecting at once
C13_Witness ==
    /\ last.kind = "tick"
    /\ last.connect
    /\ IsError(last.s) /\ IsConnecting(last.s)
    /\ ops = <<>>
    /\ UIState = "splash"
    /\ Len(last.io) = 3

\* the mode a run must record and the message it must leave, from what the
\* printer answered alone
ExpectedMode(l, st) ==
    IF ~l.qerr.isNil THEN "splash"
    ELSE IF IsOperational(st) THEN "idle"
    ELSE IF IsPrinting(st) THEN "printing"
    ELSE "splash"

ExpectedLabel(l, st, old) ==
    IF ~l.qerr.isNil
    THEN IF elapsed > errMercyPeriod
         THEN errToUser(l.qerr.text, endpoint, key) ELSE old
    ELSE IF IsOperational(st) \/ IsPrinting(st) THEN old
    ELSE IF IsError(st) \/ IsOffline(st)
         THEN IF l.cerr.isNil THEN old
              ELSE <<"Error connecting to printer:">> \o l.cerr.text
    ELSE IF IsConnecting(st) THEN StateText(st)
    ELSE old

\* C14: every tick sends exactly one liveness signal, first, and then the
\* connection request, whatever the sink answers; the sink's failure does
\* not stop the tick and has no effect on the recorded mode, the current
\* panel or the splash message, which are what the printer's answers alone
\* determine.
C14_LivenessSignalFirst ==
    [][ /\ last'.kind = "begin" =>
            /\ last'.io = <<"WATCHDOG=1", "ConnectionRequest">>
            /\ alive'
            /\ Len(pending') = Len(pending) + 1
            /\ UNCHANGED <<UIState, Current, attached, label>>
        /\ TickStep =>
            /\ Len(last'.io) >= 2
            /\ last'.io[1] = "WATCHDOG=1"
            /\ last'.io[2] = "ConnectionRequest"
            /\ \A i \in 2..Len(last'.io) : last'.io[i] # "WATCHDOG=1"
            /\ alive'
            /\ UIState' = ExpectedMode(last', last'.s)
            /\ label' = ExpectedLabel(last', last'.s, label)
            /\ UIState' = UIState => (Current' = Current /\ attached' = attached)
            /\ UIState' # UIState =>
                  (Current' # NoPanel /\ panels'[Current'].kind = UIState') ]_vars

\* the sink has just failed on a tick that went on to install the idle panel
C14_Witness ==
    /\ last.kind = "tick"
    /\ ~last.sd.isNil
    /\ last.io = <<"WATCHDOG=1", "ConnectionRequest">>
    /\ UIState = "idle"
    /\ Len(ops) = 5
    /\ alive

\* C15 as stated: a tick whose target mode equals the recorded mode leaves
\* the mode, the current panel, the slot and the splash message unchanged
\* and sends no command to the printer.
C15_Original ==
    [][ (TickStep /\ UIState' = UIState) =>
            /\ Current' = Current
            /\ attached' = attached
            /\ label' = label
            /\ ~last'.connect ]_vars

\* C15 amended: a same-mode tick leaves the mode, the current panel and the
\* slot unchanged.  In mode idle or printing it also leaves the splash
\* message unchanged and sends no command.  In mode splash it still sends the
\* connect command when the state is error or offline, and still writes the
\* splash message: the state label when connecting, the connect error when
\* the connect fails, the query error when the query fails after the mercy
\* period.
C15_SameModeTickFrame ==
    [][ (TickStep /\ UIState' = UIState) =>
            /\ Current' = Current
            /\ attached' = attached
            /\ shown' = shown
            /\ UIState \in {"idle", "printing"} =>
                  (label' = label /\ ~last'.connect)
            /\ (label' # label \/ last'.connect) => UIState = "splash"
            /\ last'.connect <=>
                  (last'.qerr.isNil /\ (IsError(last'.s) \/ IsOffline(last'.s)))
            /\ label' = ExpectedLabel(last', last'.s, label) ]_vars

\* a tick that found the mode already splash has just asked for a connect
\* and written the connect error on the splash panel
C15_Witness ==
    /\ last.kind = "tick"
    /\ ops = <<>>
    /\ UIState = "splash"
    /\ last.connect
    /\ ~last.cerr.isNil
    /\ label = <<"Error connecting to printer:">> \o last.cerr.text

\* C16 as stated: the recorded mode is splash, idle or printing in every
\* state, splash initially.
C16_Original == UIState \in {"splash", "idle", "printing"}

\* C16 amended: the recorded mode is the empty string until the first tick
\* has run to its end and splash, idle or printing in every state after
\* that: only a tick that runs to its end writes it, it writes one of the
\* three, and no call of Add, Remove or GoHistory, failed or not, touches
\* it.
C16_ModeDomain ==
    /\ [](/\ UIState \in {"", "splash", "idle", "printing"}
          /\ last.kind = "tick" => UIState # "")
    /\ [][ /\ UIState # "" => UIState' # ""
           /\ UIState' # UIState => TickStep
           /\ TickStep => UIState' \in {"splash", "idle", "printing"} ]_vars

\* the first tick has just recorded splash and installed the splash panel
\* into the empty slot
C16_Witness ==
    /\ last.kind = "tick"
    /\ UIState = "splash"
    /\ Calls(ops) = << <<"show", SplashId>>, <<"attach", SplashId>>,
                       <<"showall", NoPanel>> >>
    /\ Current = SplashId

\* C17: with runs of verifyConnection overlapping (a later run begins and
\* finishes while an earlier one still waits for the printer), at most one
\* panel is attached, in every state and after every toolkit call; the
\* recorded mode is the mode of the panel a tick installed last (the root
\* of the current panel's parent chain); and a run that finishes records
\* the mode its own answer gives, whatever runs are still waiting.
C17_OverlapKeepsState ==
    /\ Cardinality(attached) <= 1
    /\ \A i \in DOMAIN ops : ops[i].n <= 1
    /\ Current # NoPanel =>
          /\ attached = {Current}
          /\ panels[Root(panels, Current)].kind = UIState
    /\ (alive /\ Current = NoPanel) => (UIState = "" /\ attached = {})
    /\ last.kind = "tick" =>
          UIState = IF last.connect THEN "splash"
                    ELSE ExpectedMode(last, last.s)

\* a run has just finished, straight from the answer to its connection
\* request, and installed the printing panel, while another run still
\* waits for the answer to its own connection request: the two were in
\* flight together, each with its query outstanding
C17_Witness ==
    /\ Len(pending) >= 1
    /\ pending[1].phase = "query"
    /\ last.kind = "tick"
    /\ ~last.connect
    /\ last.qerr.isNil
    /\ UIState = "printing"
    /\ Len(ops) = 5
    /\ attached = {Current}

\* the panel a tick installed last is of this kind
Installed(kind) ==
    /\ Current # NoPanel
    /\ panels[Root(panels, Current)].kind = kind

\* C18: with the poller calling verifyConnection again and again and the
\* printer answering every request, once every query succeeds and reports
\* operational the recorded mode becomes idle with an idle-status panel
\* installed and stays idle; once every query reports printing (and not
\* operational) it becomes printing with a printing-status panel installed
\* and stays printing.  Only a run whose query was answered before, and
\* which still waits for its connect request, can once more record another
\* mode; with no such run left, no step leaves the mode.
C18_SettlesToReportedMode ==
    /\ (env = "op") ~> [](UIState = "idle" /\ Installed("idle"))
    /\ (env = "pr") ~> [](UIState = "printing" /\ Installed("printing"))
    /\ [][ /\ (env # "any" /\ UIState = Target /\ Stale = {}) =>
                UIState' = UIState
           /\ env # "any" => env' = env ]_vars

\* the printer has settled on operational, the mode is idle, and a further
\* tick has just left it there
C18_Witness ==
    /\ env = "op"
    /\ UIState = "idle"
    /\ Installed("idle")
    /\ last.kind = "tick"
    /\ ops = <<>>

\* number of Parent() links from p up to the panel that has none
RECURSIVE Depth(_, _)
Depth(ps, p) == IF ps[p].parent = NoPanel THEN 0 ELSE 1 + Depth(ps, ps[p].parent)

\* k calls of GoHistory in a row
RECURSIVE Back(_, _, _)
Back(d, ps, k) == IF k = 0 THEN d ELSE Back(GoHistory(d, ps), ps, k - 1)

\* Add of a new child of the current panel, then GoHistory
ShowThenBack ==
    LET ps == Append(panels, ChildPanel(Current))
    IN  GoHistory(Add(Display, Len(ps)), ps)

\* C19: from any state with a current panel P, Add of a child of P followed
\* by GoHistory leaves P, the same instance, as the current and only attached
\* panel; Depth-many GoHistory calls from any current panel end at the root
\* of its parent chain; and neither Add nor GoHistory changes the recorded
\* mode.
C19_ShowBackRoundTrip ==
    /\ [](Current # NoPanel =>
            /\ ShowThenBack.Current = Current
            /\ ShowThenBack.attached = {Current}
            /\ ShowThenBack.shown = (shown \cup {Current})
            /\ ~ShowThenBack.panic
            /\ LET e == Back(Display, panels, Depth(panels, Current))
               IN  /\ e.Current = Root(panels, Current)
                   /\ e.attached = {e.Current}
                   /\ ~e.panic)
    /\ [][ last'.kind \in {"show", "back"} => UIState' = UIState ]_vars

\* GoHistory has just returned from a child to the panel that opened it,
\* after the first tick installed the idle panel: the opener is current and
\* alone in the slot, the child is still known but detached, and the mode is
\* what it was
C19_Witness ==
    /\ last.kind = "back"
    /\ alive
    /\ Current # NoPanel
    /\ attached = {Current}
    /\ UIState = "idle"
    /\ panels[Current].kind = "idle"
    /\ \E c \in DOMAIN panels :
          /\ panels[c].parent = Current
          /\ c \notin attached
          /\ c \notin shown

\* C20: GoHistory while the current panel has no parent detaches and hides
\* that panel and attaches nothing: the slot is empty, there is no current
\* panel, the handler has failed, and the recorded mode is what it was.  A
\* later tick whose mode equals the recorded mode installs nothing: the
\* slot stays empty.
C20_ParentlessBackEmptiesSlot ==
    /\ [][ (/\ last'.kind = "back"
            /\ Current # NoPanel
            /\ Parent(panels, Current) = NoPanel) =>
              /\ Calls(ops') = << <<"detach", Current>>, <<"hide", Current>> >>
              /\ Current' = NoPanel
              /\ attached' = {}
              /\ Current \notin shown'
              /\ UIState' = UIState
              /\ panels' = panels
              /\ ~alive' ]_vars
    /\ [][ (TickStep /\ Current = NoPanel /\ UIState' = UIState) =>
              /\ ops' = <<>>
              /\ Current' = NoPanel
              /\ attached' = {}
              /\ panels' = panels ]_vars

\* after GoHistory on the parentless idle panel a tick has classified idle
\* again: the mode is still idle and the slot is still empty
C20_Witness ==
    /\ ~alive
    /\ last.kind = "tick"
    /\ last.qerr.isNil
    /\ UIState = "idle"
    /\ Current = NoPanel
    /\ attached = {}
    /\ shown = {}

====
